---------------------------- MODULE Spec2Model ----------------------------
(***************************************************************************)
(* State-machine model of src/protocols/ab2/plc5.c: the PLC-5 tag of the   *)
(* ab2 protocol stack.  The tag owns a data buffer and a transfer offset;  *)
(* a read or a write of the buffer is split into PCCC "word range"         *)
(* requests that the PLC layer (the transport) asks the tag to build and   *)
(* whose responses it hands back to the tag.                               *)
(*                                                                         *)
(* One action models one whole C function.  The PLC layer (util/plc.c,     *)
(* ab2/pccc_eip_plc.c) and the TRY_SET_* macros are not part of plc5.c;    *)
(* they are modelled from the specification text and marked so in          *)
(* MODEL_MAP.json.                                                         *)
(***************************************************************************)
EXTENDS Integers, Sequences, FiniteSets, TLC

(***************************************************************************)
(* Status codes (libplctag.h; plc5.c only names them).                     *)
(***************************************************************************)
PLCTAG_STATUS_PENDING == 1
PLCTAG_STATUS_OK == 0
PLCTAG_ERR_BAD_CONNECTION == -3
PLCTAG_ERR_BAD_REPLY == -8
PLCTAG_ERR_NO_RESOURCES == -24
PLCTAG_ERR_OUT_OF_BOUNDS == -27
PLCTAG_ERR_TOO_SMALL == -34
PLCTAG_ERR_UNSUPPORTED == -35
PLCTAG_ERR_BUSY == -39

(***************************************************************************)
(* Protocol constants.                                                     *)
(***************************************************************************)
PCCC_TYPED_CMD == 240
PCCC_CMD_OK == 64
PLC5_RANGE_READ_FUNC == 1
PLC5_RANGE_WRITE_FUNC == 0
PLC5_WORD_RANGE_READ_MAX_PAYLOAD == 244
PLC5_WORD_RANGE_WRITE_MAX_PAYLOAD == 244

(***************************************************************************)
(* Bounds of the model.                                                    *)
(*   MaxBuilds  build callbacks the PLC layer runs in one behaviour        *)
(*   MaxExtra   bytes a read response may carry beyond the requested count *)
(***************************************************************************)
MaxBuilds == 4
MaxExtra == 1

(***************************************************************************)
(* C integer conversions and arithmetic.                                   *)
(***************************************************************************)
U8(x) == x % 256
U16(x) == x % 65536
I8(x) == IF x % 256 >= 128 THEN (x % 256) - 256 ELSE x % 256

\* C's integer division truncates toward zero.
CDiv(a, b) ==
    IF a >= 0 THEN a \div b ELSE -((-a) \div b)

\* Bitwise or of two bytes.
RECURSIVE BitOr(_, _)
BitOr(a, b) ==
    IF a = 0 THEN b
    ELSE IF b = 0 THEN a
    ELSE (IF (a % 2 = 1) \/ (b % 2 = 1) THEN 1 ELSE 0) + 2 * BitOr(a \div 2, b \div 2)

RECURSIVE SumLen(_)
SumLen(ss) ==
    IF ss = <<>> THEN 0 ELSE Len(Head(ss)) + SumLen(Tail(ss))

RECURSIVE Concat(_)
Concat(ss) ==
    IF ss = <<>> THEN <<>> ELSE Head(ss) \o Concat(Tail(ss))

(***************************************************************************)
(* The packet writer.  A writer w is the part of the packet buffer written *)
(* so far (w.pkt, starting at buffer index w.start), the cursor w.off and  *)
(* the rc of the enclosing do { } while(0) block: once rc is not OK the    *)
(* block has been left by break and nothing more is written.               *)
(***************************************************************************)
NewWriter(start) ==
    [start |-> start, pkt |-> <<>>, off |-> start, rc |-> PLCTAG_STATUS_OK]

TRY_SET_BYTE(w, cap, v) ==
    IF w.rc # PLCTAG_STATUS_OK THEN w
    ELSE IF w.off < cap
         THEN [w EXCEPT !.pkt = Append(w.pkt, U8(v)), !.off = w.off + 1]
         ELSE [w EXCEPT !.rc = PLCTAG_ERR_OUT_OF_BOUNDS]

TRY_SET_U16_LE(w, cap, v) ==
    TRY_SET_BYTE(TRY_SET_BYTE(w, cap, U16(v) % 256), cap, U16(v) \div 256)

\* Mutant: <= 0xFF where the code has <= 0xFE.
EncodeField_Threshold(w, cap, v) ==
    IF v <= 255 THEN TRY_SET_BYTE(w, cap, v)
    ELSE TRY_SET_U16_LE(TRY_SET_BYTE(w, cap, 255), cap, v)

\* One address field: a byte, or 0xFF and the value as 16 bits little-endian.
EncodeField(w, cap, v) ==
    IF v <= 254 THEN TRY_SET_BYTE(w, cap, v)
    ELSE TRY_SET_U16_LE(TRY_SET_BYTE(w, cap, 255), cap, v)

encode_plc5_logical_address(w, cap, file_num, file_elem, sub_elem) ==
    LET w1 == IF sub_elem > 0 THEN TRY_SET_BYTE(w, cap, 14)
                              ELSE TRY_SET_BYTE(w, cap, 6)
        w2 == EncodeField(w1, cap, file_num)
        w3 == EncodeField(w2, cap, file_elem)
    IN  IF sub_elem >= 0 THEN EncodeField(w3, cap, sub_elem) ELSE w3


(***************************************************************************)
(* Per-round transfer sizes.                                               *)
(***************************************************************************)
\* Mutant: the count is not rounded down to whole elements.
ReadTransSize_NoRounding(tsize, off, esize) ==
    LET max_payload == PLC5_WORD_RANGE_READ_MAX_PAYLOAD
    IN  IF tsize - off < max_payload THEN tsize - off ELSE max_payload

\* build_read_request_callback: bytes requested in one round.
ReadTransSize(tsize, off, esize) ==
    LET max_payload == PLC5_WORD_RANGE_READ_MAX_PAYLOAD
        max_trans_size == IF tsize - off < max_payload THEN tsize - off ELSE max_payload
        num_elems == CDiv(max_trans_size, esize)
    IN  num_elems * esize

\* Mutant: the encoded address is not taken off the payload budget.
WriteTransSize_FullBudget(tsize, off, esize, addr_len) ==
    LET max_payload == PLC5_WORD_RANGE_WRITE_MAX_PAYLOAD
        max_trans_size == IF tsize - off < max_payload THEN tsize - off ELSE max_payload
        num_elems == CDiv(max_trans_size, esize)
    IN  num_elems * esize

\* build_write_request_callback: bytes sent in one round, addr_len being the
\* length of the encoded logical address.
WriteTransSize(tsize, off, esize, addr_len) ==
    LET max_payload == PLC5_WORD_RANGE_WRITE_MAX_PAYLOAD - addr_len
        max_trans_size == IF tsize - off < max_payload THEN tsize - off ELSE max_payload
        num_elems == CDiv(max_trans_size, esize)
    IN  num_elems * esize

\* The unchecked copy loop of build_write_request_callback.
CopyPayload(w, buf, from, n) ==
    IF n <= 0 THEN w
    ELSE [w EXCEPT !.pkt = w.pkt \o [i \in 1..n |-> buf[from + i]], !.off = w.off + n]

(***************************************************************************)
(* The request packets, as the build callbacks write them.  The result is  *)
(* the writer after the do { } while(0) block, with the round's byte count *)
(* n and whether the TSN was fetched.                                      *)
(***************************************************************************)
ReadRequest(cap, ds, tsn_rc, tsn_val, off, tsize, esize, fnum, felem, fsub) ==
    LET w0 == NewWriter(ds)
        w1 == TRY_SET_BYTE(w0, cap, PCCC_TYPED_CMD)
        w2 == TRY_SET_BYTE(w1, cap, 0)
        got == w2.rc = PLCTAG_STATUS_OK
        \* rc = (uint16_t)pccc_eip_plc_get_tsn(...)
        w3 == IF got /\ U16(tsn_rc) # PLCTAG_STATUS_OK
              THEN [w2 EXCEPT !.rc = U16(tsn_rc)] ELSE w2
        w4 == TRY_SET_U16_LE(w3, cap, tsn_val)
        w5 == TRY_SET_BYTE(w4, cap, PLC5_RANGE_READ_FUNC)
        w6 == TRY_SET_U16_LE(w5, cap, off)
        w7 == TRY_SET_U16_LE(w6, cap, CDiv(tsize, 2))
        w8 == encode_plc5_logical_address(w7, cap, fnum, felem, fsub)
        n  == ReadTransSize(tsize, off, esize)
        w9 == TRY_SET_BYTE(w8, cap, n)
    IN  [w |-> w9, n |-> n, pay_at |-> Len(w9.pkt) + 1,
         tsn_set |-> got /\ tsn_rc = PLCTAG_STATUS_OK,
         \* *data_end = req_off; *data_start is not assigned
         data_start |-> ds, data_end |-> w9.off]

WriteRequest(cap, tsn_rc, tsn_val, off, tsize, esize, fnum, felem, fsub, buf) ==
    LET w0 == NewWriter(0)
        w1 == TRY_SET_BYTE(w0, cap, PCCC_TYPED_CMD)
        w2 == TRY_SET_BYTE(w1, cap, 0)
        got == w2.rc = PLCTAG_STATUS_OK
        w3 == IF got /\ tsn_rc # PLCTAG_STATUS_OK
              THEN [w2 EXCEPT !.rc = tsn_rc] ELSE w2
        w4 == TRY_SET_U16_LE(w3, cap, tsn_val)
        w5 == TRY_SET_BYTE(w4, cap, PLC5_RANGE_WRITE_FUNC)
        w6 == TRY_SET_U16_LE(w5, cap, CDiv(off, 2))
        w7 == TRY_SET_U16_LE(w6, cap, CDiv(tsize, 2))
        w8 == encode_plc5_logical_address(w7, cap, fnum, felem, fsub)
        n  == WriteTransSize(tsize, off, esize, w8.off - w7.off)
        w9 == IF w8.rc = PLCTAG_STATUS_OK THEN CopyPayload(w8, buf, off, n) ELSE w8
    IN  [w |-> w9, n |-> n, pay_at |-> Len(w8.pkt) + 1,
         tsn_set |-> got /\ tsn_rc = PLCTAG_STATUS_OK,
         \* *data_start = *data_end = req_off
         data_start |-> w9.off, data_end |-> w9.off]

(***************************************************************************)
(* The response check both handle callbacks start with.                    *)
(***************************************************************************)
\* Mutant: the status byte is not looked at.
CheckResponse_NoStatus(resp) ==
    IF Len(resp) < 4 THEN PLCTAG_ERR_TOO_SMALL
    ELSE IF resp[1] # BitOr(PCCC_TYPED_CMD, PCCC_CMD_OK) THEN PLCTAG_ERR_BAD_REPLY
    ELSE PLCTAG_STATUS_OK

CheckResponse(resp) ==
    IF Len(resp) < 4 THEN PLCTAG_ERR_TOO_SMALL
    ELSE IF resp[1] # BitOr(PCCC_TYPED_CMD, PCCC_CMD_OK) THEN PLCTAG_ERR_BAD_REPLY
    ELSE IF resp[2] # 0 THEN PLCTAG_ERR_BAD_REPLY
    ELSE PLCTAG_STATUS_OK

\* Mutant: != where the code has <.
MoreWork_NotEqual(off, tsize) == off # tsize

\* "do we have more work to do?"
MoreWork(off, tsize) == off < tsize

\* The copy loop of handle_read_response_callback: the buffer after the
\* payload is stored at off; a store at an index >= Len(buf) is outside the
\* buffer and leaves it as it is.
StorePayload(buf, off, payload) ==
    [i \in 1..Len(buf) |->
        IF i > off /\ i <= off + Len(payload) THEN payload[i - off] ELSE buf[i]]

(***************************************************************************)
(* State.                                                                  *)
(*   The tag (ab2_plc5_tag_t and its base tag): status, trans_offset, tsn, *)
(*   data, and the fields no function of plc5.c assigns: size, elem_size,  *)
(*   elem_count, data_file_num, data_file_elem, data_file_sub_elem.        *)
(*   overrun: a store of handle_read_response_callback fell outside data.  *)
(*   The PLC layer: buffer_capacity, and request_list, the requests of     *)
(*   this tag the layer holds (queued: to be built, sent: awaiting the     *)
(*   response).                                                            *)
(*   History, read by the properties only: ev, the last C function that    *)
(*   ran with its arguments and result; xfer, the rounds since the last    *)
(*   start that was accepted; aborted, the offset and buffer when abort    *)
(*   stopped a request; failed, the error of the last failed callback;     *)
(*   builds, the number of build callbacks run.                            *)
(***************************************************************************)
VARIABLES status, trans_offset, tsn, data, overrun,
          size, elem_size, elem_count,
          data_file_num, data_file_elem, data_file_sub_elem,
          buffer_capacity, request_list,
          ev, xfer, aborted, failed, builds

tagConfig == <<size, elem_size, elem_count, data_file_num, data_file_elem,
               data_file_sub_elem, buffer_capacity>>
vars == <<status, trans_offset, tsn, data, overrun, tagConfig, request_list,
          ev, xfer, aborted, failed, builds>>

(***************************************************************************)
(* Inputs.                                                                 *)
(***************************************************************************)
\* The tags explored:
\* <<size, elem_size, data_file_num, data_file_elem, data_file_sub_elem>>
Tags == { <<4, 2, 7, 3, -1>>, <<500, 2, 300, 3, 0>> }
Capacities == { 600 }
DataStarts == { 0 }
TsnValues == { 4660 }
TsnResults == { PLCTAG_STATUS_OK, PLCTAG_ERR_NO_RESOURCES }

\* The buffer before any transfer, and the payload the PLC returns in round r.
InitialData(n) == [i \in 1..n |-> (7 * i + 3) % 251]
Payload(len, r) == [i \in 1..len |-> (100 * r + i) % 251]

ResponseHeader(b0, sts) == << b0, sts, 52, 18 >>
OkByte == BitOr(PCCC_TYPED_CMD, PCCC_CMD_OK)

\* Payload lengths of the read responses to a request for n bytes.
ReadLengths(n) == {1, n, n + MaxExtra}

Malformed(r) ==
    { << OkByte, 0, 52 >>,
      ResponseHeader(PCCC_TYPED_CMD + 1, 0) \o Payload(1, r),
      ResponseHeader(OkByte, 16) \o Payload(1, r) }

ReadResponses(n, r) ==
    { ResponseHeader(OkByte, 0) \o Payload(len, r) : len \in ReadLengths(n) }
        \cup Malformed(r)

WriteResponses(r) == { ResponseHeader(OkByte, 0) } \cup Malformed(r)

\* io, of a callback: *data_start on entry and, when the callback succeeded,
\* *data_start and *data_end on return.
NoEvent == [op |-> "create", rc |-> PLCTAG_STATUS_OK, off |-> 0, n |-> 0, resp |-> <<>>,
            io |-> <<>>]
Event(op, rc, off, n, resp) ==
    [op |-> op, rc |-> rc, off |-> off, n |-> n, resp |-> resp, io |-> <<>>]
CallbackEvent(op, rc, off, n, resp, io) ==
    [op |-> op, rc |-> rc, off |-> off, n |-> n, resp |-> resp, io |-> io]
NoXfer == [kind |-> "none", start_off |-> 0, sent |-> <<>>, rcvd |-> <<>>]
NotAborted == [set |-> FALSE, off |-> 0, data |-> <<>>]
NotFailed == [set |-> FALSE, rc |-> 0]

(***************************************************************************)
(* ab2_plc5_tag_create: the tag after construction.  The base tag is       *)
(* allocated zeroed (status OK, trans_offset 0); the element size, the     *)
(* buffer and the address come from the attributes.                        *)
(***************************************************************************)
Init ==
    /\ status = PLCTAG_STATUS_OK
    /\ trans_offset = 0
    /\ tsn = 0
    /\ overrun = FALSE
    /\ \E t \in Tags :
          /\ size = t[1]
          /\ elem_size = t[2]
          /\ elem_count = t[1] \div t[2]
          /\ data = InitialData(t[1])
          /\ data_file_num = t[3]
          /\ data_file_elem = t[4]
          /\ data_file_sub_elem = t[5]
    /\ buffer_capacity \in Capacities
    /\ request_list = <<>>
    /\ ev = NoEvent
    /\ xfer = NoXfer
    /\ aborted = NotAborted
    /\ failed = NotFailed
    /\ builds = 0

(***************************************************************************)
(* The PLC layer.                                                          *)
(***************************************************************************)
\* plc_start_request: the request slot of the tag is queued unless it is
\* already held by the layer, or the layer cannot take it.
plc_start_request_rc(list, down) ==
    IF list # <<>> THEN PLCTAG_ERR_BUSY
    ELSE IF down THEN PLCTAG_ERR_BAD_CONNECTION
    ELSE PLCTAG_STATUS_OK

plc_start_request_list(list, down, kind, by) ==
    IF plc_start_request_rc(list, down) = PLCTAG_STATUS_OK
    THEN << [kind |-> kind, state |-> "queued", by |-> by, n |-> 0] >>
    ELSE list

\* plc_stop_request: the request is taken off the layer; its callbacks no
\* longer run.
plc_stop_request(list) == <<>>

\* Mutant: the read continuation is submitted with the write callbacks.
ReadContinuation_AsWrite(list, down) ==
    plc_start_request_list(list, down, "write", "handle_read")

\* The continuation rounds the handle callbacks submit.
ReadContinuation(list, down) ==
    plc_start_request_list(list, down, "read", "handle_read")

\* Mutant: the write continuation is submitted again after the submit failed.
WriteContinuation_Retry(list, down) ==
    plc_start_request_list(list, FALSE, "write", "handle_write")

WriteContinuation(list, down) ==
    plc_start_request_list(list, down, "write", "handle_write")

NewXfer(kind) ==
    [kind |-> kind, start_off |-> trans_offset, sent |-> <<>>, rcvd |-> <<>>]

(***************************************************************************)
(* The tag's operations (plc5_vtable).                                     *)
(***************************************************************************)
\* Mutant: abort without plc_stop_request.
plc5_tag_abort_NoStop ==
    /\ ev' = Event("abort", PLCTAG_STATUS_OK, trans_offset, 0, <<>>)
    /\ aborted' = IF request_list # <<>>
                  THEN [set |-> TRUE, off |-> trans_offset, data |-> data]
                  ELSE aborted
    /\ UNCHANGED <<status, trans_offset, tsn, data, overrun, tagConfig,
                   request_list, xfer, failed, builds>>

plc5_tag_abort ==
    /\ request_list' = plc_stop_request(request_list)
    /\ ev' = Event("abort", PLCTAG_STATUS_OK, trans_offset, 0, <<>>)
    /\ aborted' = IF request_list # <<>>
                  THEN [set |-> TRUE, off |-> trans_offset, data |-> data]
                  ELSE aborted
    /\ UNCHANGED <<status, trans_offset, tsn, data, overrun, tagConfig,
                   xfer, failed, builds>>

plc5_tag_read ==
    /\ LET rc == plc_start_request_rc(request_list, FALSE)
       IN  /\ request_list' = plc_start_request_list(request_list, FALSE, "read", "start")
           /\ ev' = Event("start_read",
                          IF rc # PLCTAG_STATUS_OK THEN rc ELSE PLCTAG_STATUS_PENDING,
                          trans_offset, 0, <<>>)
           /\ xfer' = IF rc = PLCTAG_STATUS_OK THEN NewXfer("read") ELSE xfer
    /\ aborted' = NotAborted
    /\ failed' = NotFailed
    /\ UNCHANGED <<status, trans_offset, tsn, data, overrun, tagConfig, builds>>

\* Returns tag->base_tag.status; changes nothing.
plc5_tag_status_rc == status

plc5_tag_status ==
    UNCHANGED vars

\* Returns PLCTAG_ERR_UNSUPPORTED; changes nothing.
plc5_tag_tickler_rc == PLCTAG_ERR_UNSUPPORTED

plc5_tag_tickler ==
    UNCHANGED vars

plc5_tag_write ==
    /\ LET rc == plc_start_request_rc(request_list, FALSE)
       IN  /\ request_list' = plc_start_request_list(request_list, FALSE, "write", "start")
           /\ ev' = Event("start_write",
                          IF rc # PLCTAG_STATUS_OK THEN rc ELSE PLCTAG_STATUS_PENDING,
                          trans_offset, 0, <<>>)
           /\ xfer' = IF rc = PLCTAG_STATUS_OK THEN NewXfer("write") ELSE xfer
    /\ aborted' = NotAborted
    /\ failed' = NotFailed
    /\ UNCHANGED <<status, trans_offset, tsn, data, overrun, tagConfig, builds>>

\* The value returned is elem_size, elem_count or the default; the call
\* leaves its own outcome in the tag's status.
plc5_get_int_attrib(attrib_name) ==
    /\ status' = IF attrib_name \in {"elem_size", "elem_count"}
                 THEN PLCTAG_STATUS_OK ELSE PLCTAG_ERR_UNSUPPORTED
    /\ UNCHANGED <<trans_offset, tsn, data, overrun, tagConfig,
                   request_list, ev, xfer, aborted, failed, builds>>

plc5_set_int_attrib ==
    /\ status' = PLCTAG_ERR_UNSUPPORTED
    /\ UNCHANGED <<trans_offset, tsn, data, overrun, tagConfig,
                   request_list, ev, xfer, aborted, failed, builds>>

(***************************************************************************)
(* The callbacks, run by the PLC layer: a build callback for the queued    *)
(* request, a handle callback for the response to the sent one.  The layer *)
(* takes a request off its list when its build callback fails and before   *)
(* it runs the handle callback.                                            *)
(***************************************************************************)
Queued(kind) ==
    /\ request_list # <<>>
    /\ Head(request_list).state = "queued"
    /\ Head(request_list).kind = kind
    /\ builds < MaxBuilds

Sent(kind) ==
    /\ request_list # <<>>
    /\ Head(request_list).state = "sent"
    /\ Head(request_list).kind = kind

Round(off, b) ==
    [off |-> off, n |-> b.n, pkt |-> b.w.pkt, pay_at |-> b.pay_at, start |-> b.w.start]

\* What a build callback leaves in *data_start and *data_end.
BuildRange(ds, b) ==
    IF b.w.rc = PLCTAG_STATUS_OK THEN <<ds, b.data_start, b.data_end>> ELSE <<ds>>

\* The response handed to a handle callback is buffer[*data_start .. *data_end),
\* here with *data_start = 0; a callback that succeeds ends with
\* *data_start = *data_end.
HandleRange(resp, rc) ==
    IF rc = PLCTAG_STATUS_OK THEN <<0, Len(resp), Len(resp)>> ELSE <<0>>

build_read_request_callback(tsn_rc, tsn_val, ds) ==
    /\ Queued("read")
    /\ LET b == ReadRequest(buffer_capacity, ds, tsn_rc, tsn_val, trans_offset, size,
                            elem_size, data_file_num, data_file_elem, data_file_sub_elem)
           rc == b.w.rc
       IN  /\ tsn' = IF b.tsn_set THEN tsn_val ELSE tsn
           /\ ev' = CallbackEvent("build_read", rc, trans_offset,
                                  IF rc = PLCTAG_STATUS_OK THEN b.n ELSE 0, <<>>,
                                  BuildRange(ds, b))
           /\ IF rc # PLCTAG_STATUS_OK
              THEN /\ status' = I8(rc)
                   /\ failed' = [set |-> TRUE, rc |-> rc]
                   /\ request_list' = <<>>
                   /\ xfer' = xfer
              ELSE /\ status' = status
                   /\ failed' = failed
                   /\ request_list' = << [Head(request_list) EXCEPT
                                             !.state = "sent", !.n = b.n] >>
                   /\ xfer' = [xfer EXCEPT !.sent = Append(@, Round(trans_offset, b))]
    /\ builds' = builds + 1
    /\ UNCHANGED <<trans_offset, data, overrun, tagConfig, aborted>>

handle_read_response_callback(resp, down) ==
    /\ Sent("read")
    /\ LET rc0 == CheckResponse(resp)
           payload == SubSeq(resp, 5, Len(resp))
           off1 == U16(trans_offset + Len(payload))
           more == MoreWork(off1, size)
           rc1 == IF more THEN plc_start_request_rc(<<>>, down) ELSE PLCTAG_STATUS_OK
           rc == IF rc0 # PLCTAG_STATUS_OK THEN rc0 ELSE rc1
       IN  /\ ev' = CallbackEvent("handle_read", rc, trans_offset,
                                  IF rc0 = PLCTAG_STATUS_OK THEN Len(payload) ELSE 0, resp,
                                  HandleRange(resp, rc))
           /\ IF rc0 # PLCTAG_STATUS_OK
              THEN /\ UNCHANGED <<data, overrun, trans_offset, xfer>>
                   /\ request_list' = <<>>
              ELSE /\ data' = StorePayload(data, trans_offset, payload)
                   /\ overrun' = (overrun \/ trans_offset + Len(payload) > Len(data))
                   /\ xfer' = [xfer EXCEPT !.rcvd = Append(@, payload)]
                   /\ IF more
                      THEN /\ trans_offset' = off1
                           /\ request_list' = ReadContinuation(<<>>, down)
                      ELSE /\ trans_offset' = 0
                           /\ request_list' = <<>>
           /\ status' = IF rc # PLCTAG_STATUS_OK THEN I8(rc)
                        ELSE IF more THEN status ELSE PLCTAG_STATUS_OK
           /\ failed' = IF rc # PLCTAG_STATUS_OK THEN [set |-> TRUE, rc |-> rc] ELSE failed
    /\ UNCHANGED <<tsn, tagConfig, aborted, builds>>

build_write_request_callback(tsn_rc, tsn_val, ds) ==
    /\ Queued("write")
    /\ LET b == WriteRequest(buffer_capacity, tsn_rc, tsn_val, trans_offset, size,
                             elem_size, data_file_num, data_file_elem,
                             data_file_sub_elem, data)
           rc == b.w.rc
       IN  /\ tsn' = IF b.tsn_set THEN tsn_val ELSE tsn
           /\ ev' = CallbackEvent("build_write", rc, trans_offset,
                                  IF rc = PLCTAG_STATUS_OK THEN b.n ELSE 0, <<>>,
                                  BuildRange(ds, b))
           /\ IF rc # PLCTAG_STATUS_OK
              THEN /\ status' = I8(rc)
                   /\ failed' = [set |-> TRUE, rc |-> rc]
                   /\ request_list' = <<>>
                   /\ xfer' = xfer
                   /\ trans_offset' = trans_offset
              ELSE /\ status' = status
                   /\ failed' = failed
                   /\ request_list' = << [Head(request_list) EXCEPT
                                             !.state = "sent", !.n = b.n] >>
                   /\ xfer' = [xfer EXCEPT !.sent = Append(@, Round(trans_offset, b))]
                   /\ trans_offset' = U16(trans_offset + b.n)
    /\ builds' = builds + 1
    /\ UNCHANGED <<data, overrun, tagConfig, aborted>>

handle_write_response_callback(resp, down) ==
    /\ Sent("write")
    /\ LET rc0 == CheckResponse(resp)
           more == MoreWork(trans_offset, size)
           rc1 == IF more THEN plc_start_request_rc(<<>>, down) ELSE PLCTAG_STATUS_OK
           rc == IF rc0 # PLCTAG_STATUS_OK THEN rc0 ELSE rc1
       IN  /\ ev' = CallbackEvent("handle_write", rc, trans_offset, 0, resp,
                                  HandleRange(resp, rc))
           /\ IF rc0 # PLCTAG_STATUS_OK
              THEN /\ UNCHANGED <<trans_offset, xfer>>
                   /\ request_list' = <<>>
              ELSE /\ xfer' = [xfer EXCEPT !.rcvd = Append(@, <<>>)]
                   /\ IF more
                      THEN /\ trans_offset' = trans_offset
                           /\ request_list' = WriteContinuation(<<>>, down)
                      ELSE /\ trans_offset' = 0
                           /\ request_list' = <<>>
           /\ status' = IF rc # PLCTAG_STATUS_OK THEN I8(rc)
                        ELSE IF more THEN status ELSE PLCTAG_STATUS_OK
           /\ failed' = IF rc # PLCTAG_STATUS_OK THEN [set |-> TRUE, rc |-> rc] ELSE failed
    /\ UNCHANGED <<tsn, data, overrun, tagConfig, aborted, builds>>

\* A response to the sent request arrives; down: the layer cannot take the
\* continuation request.
ReadResponseArrives ==
    /\ Sent("read")
    /\ \E down \in BOOLEAN :
          \E resp \in ReadResponses(Head(request_list).n, Len(xfer.sent)) :
             handle_read_response_callback(resp, down)

WriteResponseArrives ==
    /\ Sent("write")
    /\ \E down \in BOOLEAN :
          \E resp \in WriteResponses(Len(xfer.sent)) :
             handle_write_response_callback(resp, down)

(***************************************************************************)
(* The specification.                                                      *)
(***************************************************************************)
Next ==
    \/ plc5_tag_abort
    \/ plc5_tag_read
    \/ plc5_tag_status
    \/ plc5_tag_tickler
    \/ plc5_tag_write
    \/ \E name \in {"elem_size", "elem_count", "other"} : plc5_get_int_attrib(name)
    \/ plc5_set_int_attrib
    \/ \E tsn_rc \in TsnResults, tsn_val \in TsnValues, ds \in DataStarts :
          build_read_request_callback(tsn_rc, tsn_val, ds)
    \/ ReadResponseArrives
    \/ \E tsn_rc \in TsnResults, tsn_val \in TsnValues, ds \in DataStarts :
          build_write_request_callback(tsn_rc, tsn_val, ds)
    \/ WriteResponseArrives

Spec == Init /\ [][Next]_vars

(***************************************************************************)
(* The same operations on tags whose size is not a multiple of the element *)
(* size, or whose element is larger than a packet's payload, and with      *)
(* packet buffers too small for a request.                                 *)
(***************************************************************************)
EdgeTags == { <<5, 2, 7, 3, -1>>, <<300, 300, 7, 3, -1>> }
EdgeCapacities == { 600, 14, 12, 9 }

EdgeInit ==
    /\ status = PLCTAG_STATUS_OK
    /\ trans_offset = 0
    /\ tsn = 0
    /\ overrun = FALSE
    /\ \E t \in EdgeTags :
          /\ size = t[1]
          /\ elem_size = t[2]
          /\ elem_count = t[1] \div t[2]
          /\ data = InitialData(t[1])
          /\ data_file_num = t[3]
          /\ data_file_elem = t[4]
          /\ data_file_sub_elem = t[5]
    /\ buffer_capacity \in EdgeCapacities
    /\ request_list = <<>>
    /\ ev = NoEvent
    /\ xfer = NoXfer
    /\ aborted = NotAborted
    /\ failed = NotFailed
    /\ builds = 0

EdgeSpec == EdgeInit /\ [][Next]_vars

(***************************************************************************)
(* The transfers alone (starts, build and handle callbacks), with the PLC  *)
(* layer handing the build callbacks a packet that begins at index 0 or at *)
(* index 2 of the buffer.                                                  *)
(***************************************************************************)
PacketStarts == {0, 2}

PacketNext ==
    \/ plc5_tag_read
    \/ plc5_tag_write
    \/ \E tsn_rc \in TsnResults, tsn_val \in TsnValues, ds \in PacketStarts :
          build_read_request_callback(tsn_rc, tsn_val, ds)
    \/ ReadResponseArrives
    \/ \E tsn_rc \in TsnResults, tsn_val \in TsnValues, ds \in PacketStarts :
          build_write_request_callback(tsn_rc, tsn_val, ds)
    \/ WriteResponseArrives

PacketSpec == Init /\ [][PacketNext]_vars

(***************************************************************************)
(* encode_plc5_logical_address on its own: the address is drawn from the   *)
(* values below, and the one action encodes it into a buffer of            *)
(* buffer_capacity bytes from a cursor position, leaving the result in ev: *)
(* rc, the cursor advance (n) and the bytes written (resp).                *)
(***************************************************************************)
EncValues == {0, 3, 7, 254, 255, 300, 65535}
EncSubValues == {-1, 0, 1, 254, 255, 65535}
EncCapacities == {4, 16}
EncStarts == {0, 2}

EncInit ==
    /\ status = PLCTAG_STATUS_OK
    /\ trans_offset = 0
    /\ tsn = 0
    /\ overrun = FALSE
    /\ size = 4
    /\ elem_size = 2
    /\ elem_count = 2
    /\ data = InitialData(4)
    /\ data_file_num \in EncValues
    /\ data_file_elem \in EncValues
    /\ data_file_sub_elem \in EncSubValues
    /\ buffer_capacity \in EncCapacities
    /\ request_list = <<>>
    /\ ev = NoEvent
    /\ xfer = NoXfer
    /\ aborted = NotAborted
    /\ failed = NotFailed
    /\ builds = 0

EncodeAddress(start) ==
    /\ LET w == encode_plc5_logical_address(NewWriter(start), buffer_capacity,
                                            data_file_num, data_file_elem,
                                            data_file_sub_elem)
       IN  ev' = Event("encode", w.rc, start, w.off - start, w.pkt)
    /\ UNCHANGED <<status, trans_offset, tsn, data, overrun, tagConfig,
                   request_list, xfer, aborted, failed, builds>>

EncNext ==
    \E start \in EncStarts : EncodeAddress(start)

EncSpec == EncInit /\ [][EncNext]_vars

(***************************************************************************)
(* Helpers of the properties.                                              *)
(***************************************************************************)
Min(a, b) == IF a < b THEN a ELSE b

\* The payload bytes of a built write request.
WritePayload(round) == SubSeq(round.pkt, round.pay_at, Len(round.pkt))
WritePayloads(sent) == [i \in 1..Len(sent) |-> WritePayload(sent[i])]

RECURSIVE SumN(_, _)
\* The bytes of the first k rounds.
SumN(sent, k) == IF k = 0 THEN 0 ELSE sent[k].n + SumN(sent, k - 1)

\* The step is a run of the named callback.
Ran(op) == ev' # ev /\ ev'.op = op

IsMalformed(resp) ==
    \/ Len(resp) < 4
    \/ resp[1] # BitOr(PCCC_TYPED_CMD, PCCC_CMD_OK)
    \/ resp[2] # 0

(***************************************************************************)
(* C1.  Read completeness: when the payloads of the successful read        *)
(* responses since the start of the read add up to size, then after the    *)
(* handle callback of the last of them the data buffer is the payloads in  *)
(* round order, trans_offset is 0, the status is OK and no request is      *)
(* queued.                                                                 *)
(***************************************************************************)
C1_ReadCompleteness ==
    [][ ( /\ Ran("handle_read")
          /\ ev'.rc = PLCTAG_STATUS_OK
          /\ SumLen(xfer'.rcvd) = size )
        => ( /\ data' = Concat(xfer'.rcvd)
             /\ trans_offset' = 0
             /\ status' = PLCTAG_STATUS_OK
             /\ request_list' = <<>> ) ]_vars

(***************************************************************************)
(* C2.  Write completeness: at the acknowledgment that ends a write (all   *)
(* rounds acknowledged, nothing more to send) the payloads of the built    *)
(* requests, in round order, are the data buffer, trans_offset is 0 and    *)
(* the status is OK.                                                       *)
(***************************************************************************)
C2_WriteCompleteness ==
    [][ ( /\ Ran("handle_write")
          /\ ev'.rc = PLCTAG_STATUS_OK
          /\ request_list' = <<>> )
        => ( /\ Concat(WritePayloads(xfer'.sent)) = data'
             /\ trans_offset' = 0
             /\ status' = PLCTAG_STATUS_OK ) ]_vars

(***************************************************************************)
(* C3.  While a transfer is in progress (its request is queued or sent)    *)
(* the status operation returns PENDING.                                   *)
(***************************************************************************)
C3_PendingWhileInProgress ==
    request_list # <<>> => plc5_tag_status_rc = PLCTAG_STATUS_PENDING

(***************************************************************************)
(* C4.  After a build or handle callback failed with an error, the status  *)
(* operation returns that error (as the 8-bit status field holds it) until *)
(* the next start of a read or a write.                                    *)
(***************************************************************************)
C4_ErrorPersists ==
    failed.set => plc5_tag_status_rc = I8(failed.rc)

(***************************************************************************)
(* C5.  A handle callback given a response of fewer than 4 bytes returns   *)
(* TOO_SMALL; given one of 4 bytes or more whose first byte is not         *)
(* PCCC_TYPED_CMD | PCCC_CMD_OK or whose status byte is not 0 it returns   *)
(* BAD_REPLY; in both cases the status is that error, trans_offset and the *)
(* data buffer are unchanged and no request is queued.                     *)
(***************************************************************************)
C5_MalformedRejected ==
    [][ ( /\ Ran("handle_read") \/ Ran("handle_write")
          /\ IsMalformed(ev'.resp) )
        => ( /\ ev'.rc = IF Len(ev'.resp) < 4 THEN PLCTAG_ERR_TOO_SMALL
                         ELSE PLCTAG_ERR_BAD_REPLY
             /\ status' = ev'.rc
             /\ trans_offset' = trans_offset
             /\ data' = data
             /\ request_list' = <<>> ) ]_vars

\* A read response with a nonzero status byte was rejected in mid-transfer.
C5_Witness ==
    /\ ev.op = "handle_read"
    /\ Len(ev.resp) >= 4
    /\ ev.resp[2] # 0
    /\ ev.rc = PLCTAG_ERR_BAD_REPLY
    /\ trans_offset > 0

(***************************************************************************)
(* C6.  0 <= trans_offset <= size in every state.                          *)
(***************************************************************************)
C6_OffsetInRange ==
    0 <= trans_offset /\ trans_offset <= size

\* A read response that carried more bytes than remained has been handled.
C6_Witness ==
    /\ ev.op = "handle_read"
    /\ ev.rc = PLCTAG_STATUS_OK
    /\ ev.off + ev.n > size

ChunkOk(n, off, tsize, esize) ==
    /\ n >= 0
    /\ n % esize = 0
    /\ n <= Min(244, tsize - off)

\* Sizes, element sizes and address lengths the two computations are swept
\* over when the tag is created.
SweepSizes == (0..12) \cup {243, 244, 245, 246, 488, 500}
SweepElemSizes == {1, 2, 3, 4, 7, 245, 300}
SweepAddrLens == 3..10

C8_ChunkSizing ==
    /\ \A i \in 1..Len(xfer.sent) :
          ChunkOk(xfer.sent[i].n, xfer.sent[i].off, size, elem_size)
    /\ ev.op = "create" =>
          \A tsize \in SweepSizes \cup {size}, esize \in SweepElemSizes \cup {elem_size} :
             \A off \in 0..tsize :
                /\ ChunkOk(ReadTransSize(tsize, off, esize), off, tsize, esize)
                /\ \A addr_len \in SweepAddrLens :
                      ChunkOk(WriteTransSize(tsize, off, esize, addr_len), off, tsize, esize)

\* A write round was built at an odd offset: 3 bytes remained, 2 were sent.
C8_Witness ==
    /\ xfer.kind = "write"
    /\ \E i \in 1..Len(xfer.sent) :
          /\ xfer.sent[i].n > 0
          /\ xfer.sent[i].n < Min(244, size - xfer.sent[i].off)

(***************************************************************************)
(* C9.  In a read whose responses so far all carried exactly the requested *)
(* count, round k is built at the sum of the earlier rounds' counts and    *)
(* requests floor(min(244, size - that sum) / elem_size) * elem_size       *)
(* bytes, the last byte of the request; for size 500 and elem_size 2 the   *)
(* rounds are 244 bytes at 0, 244 at 244 and 12 at 488; and when the       *)
(* counts add up to size and all rounds are answered, trans_offset is 0    *)
(* and no request is queued.                                               *)
(***************************************************************************)
AllExact ==
    \A j \in 1..Len(xfer.rcvd) : Len(xfer.rcvd[j]) = xfer.sent[j].n

ExpectedCount(k) ==
    CDiv(Min(244, size - SumN(xfer.sent, k - 1)), elem_size) * elem_size

C9_ReadRounds ==
    (xfer.kind = "read" /\ AllExact) =>
       /\ \A k \in 1..Len(xfer.sent) :
             LET r == xfer.sent[k]
             IN  /\ r.off = SumN(xfer.sent, k - 1)
                 /\ r.n = ExpectedCount(k)
                 /\ r.pkt[Len(r.pkt)] = r.n
                 /\ (size = 500 /\ elem_size = 2) =>
                       /\ k = 1 => (r.off = 0 /\ r.n = 244)
                       /\ k = 2 => (r.off = 244 /\ r.n = 244)
                       /\ k = 3 => (r.off = 488 /\ r.n = 12)
       /\ ( /\ Len(xfer.rcvd) = Len(xfer.sent)
            /\ SumN(xfer.sent, Len(xfer.sent)) = size )
          => (trans_offset = 0 /\ request_list = <<>>)

(***************************************************************************)
(* C10.  From an abort that stopped a request until the next start of a    *)
(* read or a write, no request of the tag is with the PLC layer, no build  *)
(* or handle callback runs, and trans_offset and the data buffer are what  *)
(* they were at the abort.                                                 *)
(***************************************************************************)
C10_AbortStops ==
    aborted.set =>
       /\ request_list = <<>>
       /\ ev.op = "abort"
       /\ trans_offset = aborted.off
       /\ data = aborted.data

\* A request was stopped in mid-transfer and the status was then overwritten.
C10_Witness ==
    /\ aborted.set
    /\ trans_offset > 0
    /\ trans_offset < size
    /\ status = PLCTAG_ERR_UNSUPPORTED

(***************************************************************************)
(* C11.  Every transfer begins at offset 0: trans_offset is 0 when a start *)
(* is accepted, and the first request built for the transfer is built for  *)
(* offset 0.                                                               *)
(***************************************************************************)
C11_StartAtZero ==
    xfer.kind # "none" =>
       /\ xfer.start_off = 0
       /\ Len(xfer.sent) >= 1 => xfer.sent[1].off = 0

(***************************************************************************)
(* C15.  A handle callback that fails (the response is rejected, or the    *)
(* continuation cannot be submitted) returns the error, leaves it in the   *)
(* status and leaves no request with the PLC layer; after a failed         *)
(* callback no request is queued until the next start; a handle callback   *)
(* leaves a request queued only when it succeeded on a well-formed         *)
(* response and trans_offset < size.                                       *)
(***************************************************************************)
C15_FailedRoundTerminal ==
    [][ /\ (Ran("handle_read") \/ Ran("handle_write")) =>
              /\ ev'.rc # PLCTAG_STATUS_OK =>
                    /\ status' = ev'.rc
                    /\ failed'.set /\ failed'.rc = ev'.rc
                    /\ request_list' = <<>>
              /\ IsMalformed(ev'.resp) => ev'.rc # PLCTAG_STATUS_OK
              /\ request_list' # <<>> =>
                    /\ ev'.rc = PLCTAG_STATUS_OK
                    /\ Head(request_list').state = "queued"
                    /\ trans_offset' < size
        /\ failed'.set => request_list' = <<>> ]_vars

\* The continuation of a write could not be submitted in mid-transfer.
C15_Witness ==
    /\ ev.op = "handle_write"
    /\ ev.rc = PLCTAG_ERR_BAD_CONNECTION
    /\ status = PLCTAG_ERR_BAD_CONNECTION
    /\ trans_offset > 0
    /\ trans_offset < size
    /\ request_list = <<>>

(***************************************************************************)
(* C18.  handle_read_response_callback stores no byte outside the data     *)
(* buffer.                                                                 *)
(***************************************************************************)
C18_StoresInBounds ==
    ~overrun

(***************************************************************************)
(* C19.  In every request built, bytes 5-6 (the word offset, 16 bits       *)
(* little-endian) hold floor(offset / 2) for the byte offset the round was *)
(* built at, and bytes 7-8 (the word count) hold floor(size / 2).          *)
(***************************************************************************)
U16At(pkt, i) == pkt[i] + 256 * pkt[i + 1]

C19_WordFields ==
    \A i \in 1..Len(xfer.sent) :
       LET r == xfer.sent[i]
       IN  /\ U16At(r.pkt, 6) = r.off \div 2
           /\ U16At(r.pkt, 8) = size \div 2

(***************************************************************************)
(* C20.  A successful build_write_request_callback at offset o places      *)
(* n = floor(min(244 - address length, size - o) / elem_size) * elem_size  *)
(* bytes, data[o .. o+n), right after the encoded address and sets         *)
(* trans_offset to o + n; a failed one leaves trans_offset;                *)
(* handle_write_response_callback leaves trans_offset or, when it ends the *)
(* transfer successfully, sets it to 0; no other step of a write transfer  *)
(* changes trans_offset.                                                   *)
(***************************************************************************)
FieldWidth(v) == IF v <= 254 THEN 1 ELSE 3

AddressLength ==
    1 + FieldWidth(data_file_num) + FieldWidth(data_file_elem)
      + (IF data_file_sub_elem >= 0 THEN FieldWidth(data_file_sub_elem) ELSE 0)

C20_WriteOffsetAdvance ==
    [][ /\ Ran("build_write") =>
              IF ev'.rc = PLCTAG_STATUS_OK
              THEN LET o == trans_offset
                       n == ev'.n
                       r == xfer'.sent[Len(xfer'.sent)]
                   IN  /\ n = CDiv(Min(244 - AddressLength, size - o), elem_size) * elem_size
                       /\ r.pay_at = 9 + AddressLength + 1
                       /\ WritePayload(r) = SubSeq(data, o + 1, o + n)
                       /\ trans_offset' = o + n
              ELSE trans_offset' = trans_offset
        /\ Ran("handle_write") =>
              \/ trans_offset' = trans_offset
              \/ /\ trans_offset' = 0
                 /\ ev'.rc = PLCTAG_STATUS_OK
                 /\ request_list' = <<>>
        /\ ( /\ xfer.kind = "write" /\ xfer'.kind = "write"
             /\ ~Ran("build_write") /\ ~Ran("handle_write") )
           => trans_offset' = trans_offset ]_vars

\* The second round of a 500-byte write was built at offset 238.
C20_Witness ==
    /\ ev.op = "build_write"
    /\ ev.rc = PLCTAG_STATUS_OK
    /\ ev.off = 238
    /\ ev.n = 238
    /\ trans_offset = 476

(***************************************************************************)
(* C12.  The first byte encode_plc5_logical_address emits is 0x0E exactly  *)
(* when sub_elem >= 0 and 0x06 exactly when sub_elem < 0, and the          *)
(* sub-element bytes are emitted exactly when it is 0x0E; (7, 3, -1)       *)
(* encodes to 06 07 03 and (300, 3, 0) to 0E FF 2C 01 03 00.               *)
(***************************************************************************)
SubElemEmitted ==
    Len(ev.resp) > 1 + FieldWidth(data_file_num) + FieldWidth(data_file_elem)

C12_Selector ==
    (ev.op = "encode" /\ ev.rc = PLCTAG_STATUS_OK) =>
       /\ ev.resp[1] = 14 <=> data_file_sub_elem >= 0
       /\ ev.resp[1] = 6 <=> data_file_sub_elem < 0
       /\ SubElemEmitted <=> ev.resp[1] = 14
       /\ (data_file_num = 7 /\ data_file_elem = 3 /\ data_file_sub_elem = -1)
             => ev.resp = <<6, 7, 3>>
       /\ (data_file_num = 300 /\ data_file_elem = 3 /\ data_file_sub_elem = 0)
             => ev.resp = <<14, 255, 44, 1, 3, 0>>

(***************************************************************************)
(* C13.  After the selector byte encode_plc5_logical_address emits the     *)
(* file number, the element and (when present) the sub-element, in that    *)
(* order, each as the byte v when v <= 0xFE and as 0xFF, v mod 256,        *)
(* v div 256 otherwise; the cursor advances by 1 + the field widths; and   *)
(* decoding the fields by the same rule gives back the three values.       *)
(***************************************************************************)
FieldBytes(v) == IF v <= 254 THEN <<v>> ELSE <<255, v % 256, v \div 256>>

RECURSIVE DecodeFields(_, _)
DecodeFields(bytes, k) ==
    IF k = 0 \/ bytes = <<>> THEN <<>>
    ELSE IF bytes[1] = 255
         THEN <<bytes[2] + 256 * bytes[3]>> \o DecodeFields(SubSeq(bytes, 4, Len(bytes)), k - 1)
         ELSE <<bytes[1]>> \o DecodeFields(Tail(bytes), k - 1)

C13_FieldEncoding ==
    (ev.op = "encode" /\ ev.rc = PLCTAG_STATUS_OK) =>
       LET fields == IF data_file_sub_elem >= 0
                     THEN <<data_file_num, data_file_elem, data_file_sub_elem>>
                     ELSE <<data_file_num, data_file_elem>>
           expected == Concat([i \in 1..Len(fields) |-> FieldBytes(fields[i])])
       IN  /\ Tail(ev.resp) = expected
           /\ ev.n = 1 + Len(expected)
           /\ ev.n = Len(ev.resp)
           /\ DecodeFields(Tail(ev.resp), Len(fields)) = fields

\* An address with three escaped fields was encoded into 10 bytes.
C13_Witness ==
    /\ ev.op = "encode"
    /\ ev.rc = PLCTAG_STATUS_OK
    /\ data_file_num = 300
    /\ data_file_elem = 255
    /\ data_file_sub_elem = 65535
    /\ ev.n = 10

(***************************************************************************)
(* C14.  Termination.  With every request answered by a well-formed        *)
(* success response (a read response of exactly the requested bytes), a    *)
(* transfer ends because size - trans_offset decreases from round to       *)
(* round: a handle callback that succeeds on such a response either ends   *)
(* the transfer (no request queued) or leaves trans_offset beyond the      *)
(* offset the round was built at.  A round that is answered and            *)
(* resubmitted at the offset it was built at is followed by the same round *)
(* again, without end.                                                     *)
(***************************************************************************)
LastRound(x) == x.sent[Len(x.sent)]

C14_RoundsProgress ==
    [][ ( /\ Ran("handle_read") \/ Ran("handle_write")
          /\ ev'.rc = PLCTAG_STATUS_OK
          /\ Ran("handle_read") => ev'.n = LastRound(xfer').n )
        => ( \/ request_list' = <<>>
             \/ trans_offset' > LastRound(xfer').off ) ]_vars

(***************************************************************************)
(* C16.  A build callback run while trans_offset < size and the byte count *)
(* of the round, rounded down to whole elements, is 0 fails: it returns an *)
(* error, leaves it in the status, leaves trans_offset and emits no        *)
(* request.                                                                *)
(***************************************************************************)
RoundedCount(kind, off) ==
    LET budget == IF kind = "write" THEN 244 - AddressLength ELSE 244
    IN  CDiv(Min(budget, size - off), elem_size) * elem_size

C16_NoZeroByteRequest ==
    [][ \A kind \in {"read", "write"} :
           ( /\ Ran(IF kind = "read" THEN "build_read" ELSE "build_write")
             /\ trans_offset < size
             /\ RoundedCount(kind, trans_offset) = 0 )
           => ( /\ ev'.rc # PLCTAG_STATUS_OK
                /\ status' = I8(ev'.rc)
                /\ trans_offset' = trans_offset
                /\ xfer'.sent = xfer.sent ) ]_vars

(***************************************************************************)
(* C17.  No request built is longer than the packet buffer; a build        *)
(* callback whose request (header, address, and the count byte of a read   *)
(* or the payload of a write) does not fit in buffer_capacity bytes fails  *)
(* with OUT_OF_BOUNDS, unless the TSN could not be had first, leaves the   *)
(* error in the status and leaves trans_offset.                            *)
(***************************************************************************)
RequestLength(kind, off) ==
    9 + AddressLength + (IF kind = "write" THEN RoundedCount(kind, off) ELSE 1)

C17_PacketFits ==
    [][ /\ \A i \in 1..Len(xfer'.sent) : Len(xfer'.sent[i].pkt) <= buffer_capacity
        /\ \A kind \in {"read", "write"} :
              ( /\ Ran(IF kind = "read" THEN "build_read" ELSE "build_write")
                /\ RequestLength(kind, trans_offset) > buffer_capacity )
              => ( /\ \/ ev'.rc = PLCTAG_ERR_OUT_OF_BOUNDS
                      \/ I8(ev'.rc) = PLCTAG_ERR_NO_RESOURCES
                   /\ status' = I8(ev'.rc)
                   /\ trans_offset' = trans_offset ) ]_vars

(***************************************************************************)
(* C21.  A build callback that succeeds has stored the TSN the PLC layer   *)
(* returned and written it, 16 bits little-endian, in bytes 2-3 of the     *)
(* request.  With a packet buffer that holds any request, a build callback *)
(* fails only when the TSN could not be had; it then returns the code the  *)
(* PLC layer reported, leaves that code in the status, leaves trans_offset *)
(* and the data buffer, and no request is built or left queued.            *)
(***************************************************************************)
C21_TsnAndFailure ==
    [][ (Ran("build_read") \/ Ran("build_write")) =>
           IF ev'.rc = PLCTAG_STATUS_OK
           THEN /\ tsn' \in TsnValues
                /\ U16At(LastRound(xfer').pkt, 3) = tsn'
           ELSE /\ ev'.rc \in TsnResults
                /\ status' = ev'.rc
                /\ trans_offset' = trans_offset
                /\ data' = data
                /\ xfer'.sent = xfer.sent
                /\ request_list' = <<>> ]_vars

(***************************************************************************)
(* C22.  A build callback that succeeds, entered with *data_start = s, has *)
(* written its request from buffer index s on and returns with             *)
(* *data_start = s and *data_end = s + the length of the request, a        *)
(* non-empty range; a handle callback that succeeds returns with           *)
(* *data_start = *data_end.                                                *)
(***************************************************************************)
C22_PacketRange ==
    [][ /\ ( /\ Ran("build_read") \/ Ran("build_write")
             /\ ev'.rc = PLCTAG_STATUS_OK )
           => LET s == ev'.io[1]
                  r == LastRound(xfer')
              IN  /\ r.start = s
                  /\ ev'.io[2] = s
                  /\ ev'.io[3] = s + Len(r.pkt)
                  /\ ev'.io[2] < ev'.io[3]
        /\ ( /\ Ran("handle_read") \/ Ran("handle_write")
             /\ ev'.rc = PLCTAG_STATUS_OK )
           => ev'.io[2] = ev'.io[3] ]_vars

=============================================================================
